---- MODULE Spec2Model ----
(***************************************************************************)
(* SETBP1 literature search: the command line entry point, the Streamlit   *)
(* front end, the three source adapters, the classifier, the summarizer    *)
(* and the link rules of the two report renderers.                         *)
(*                                                                         *)
(* A Python str is modelled as a sequence of one-character strings, so     *)
(* that split, strip, lower, join and the substring test are computed      *)
(* character by character the way the interpreter computes them.           *)
(***************************************************************************)
EXTENDS Integers, Sequences, FiniteSets, TLC

VARIABLES
  text,         \* SpecText: the str handed to the summarizer functions; SpecFilter: the title
  typed,        \* SpecText: how many pieces were appended to the seed text
  call,         \* SpecText/SpecFilter/SpecReport: the last call [fn, arg, ret]
  papers_in,    \* SpecReport: the list of paper records handed to a renderer
  pc,           \* Spec: where the process is (see Init)
  caller,       \* Spec: "cli" for main(), "web" for the Streamlit page, "none" before
  args,         \* Spec: the argparse namespace of main(): [start, end]
  searcher,     \* Spec: the SETBPLiteratureSearch object: [start_date, end_date, all_papers]
  network,      \* Spec: whether any HTTP request has been sent
  adapters,     \* Spec: the adapter methods run() has called, and those that returned
  pm,           \* Spec: locals of get_pubmed_metadata: [pmids, i, attempt, all_metadata],
                \* with the batches given up (abandoned) and the records of the
                \* attempts that succeeded (fetched)
                \* and the requests sent, the outcome of the last attempt
                \* (raised) and the last sleep in milliseconds (slept)
  pp,           \* Spec: locals of _search_preprint_server: [papers, cursor]
                \* SpecPages: with the server and the pages fetched so far (pages)
  found,        \* Spec: locals of run(): [pubmed_papers, biorxiv_papers, medrxiv_papers]
  files,        \* Spec: what run() wrote to the output directory: [excel, pdf]
  outcome       \* Spec: how the process ended: [exit_status, raised, results]

(***************************************************************************)
(* Python str and list primitives                                          *)
(***************************************************************************)

SETBP1_KEYWORDS ==
  << <<"s", "e", "t", "b", "p", "1">>,
    <<"s", "c", "h", "i", "n", "z", "e", "l", "-", "g", "i", "e", "d", "i", "o", "n">>,
    <<"s", "c", "h", "i", "n", "z", "e", "l", " ", "g", "i", "e", "d", "i", "o", "n">>,
    <<"s", "g", "d">>,
    <<"s", "e", "t", " ", "b", "i", "n", "d", "i", "n", "g", " ", "p", "r", "o", "t", "e", "i", "n", " ", "1">> >>

MechanismWords ==
  << <<"m", "e", "c", "h", "a", "n", "i", "s", "m">>,
    <<"p", "a", "t", "h", "w", "a", "y">>,
    <<"s", "i", "g", "n", "a", "l", "i", "n", "g">>,
    <<"f", "u", "n", "c", "t", "i", "o", "n">>,
    <<"s", "t", "r", "u", "c", "t", "u", "r", "e">> >>

TherapeuticsWords ==
  << <<"d", "r", "u", "g">>,
    <<"t", "h", "e", "r", "a", "p", "e", "u", "t", "i", "c">>,
    <<"t", "r", "e", "a", "t", "m", "e", "n", "t">>,
    <<"i", "n", "h", "i", "b", "i", "t", "o", "r">>,
    <<"t", "r", "i", "a", "l">> >>

ModelsWords ==
  << <<"m", "o", "u", "s", "e">>,
    <<"m", "i", "c", "e">>,
    <<"r", "a", "t">>,
    <<"m", "o", "d", "e", "l">>,
    <<"c", "r", "i", "s", "p", "r">>,
    <<"c", "e", "l", "l">>,
    <<"i", "n", " ", "v", "i", "t", "r", "o">> >>

DatasetWords ==
  << <<"c", "o", "h", "o", "r", "t">>,
    <<"r", "e", "g", "i", "s", "t", "r", "y">>,
    <<"d", "a", "t", "a", "s", "e", "t">>,
    <<"p", "o", "p", "u", "l", "a", "t", "i", "o", "n">> >>

skip ==
  { <<"t", "h", "e">>,
    <<"a">>,
    <<"a", "n">>,
    <<"i", "n">>,
    <<"o", "n">>,
    <<"a", "t">>,
    <<"t", "o">>,
    <<"f", "o", "r">>,
    <<"o", "f">>,
    <<"a", "n", "d">>,
    <<"w", "i", "t", "h">> }


UPPER == <<"A", "B", "C", "D", "E", "F", "G", "H", "I", "J", "K", "L", "M", "N", "O", "P", "Q", "R", "S", "T", "U", "V", "W", "X", "Y", "Z">>
LOWER == <<"a", "b", "c", "d", "e", "f", "g", "h", "i", "j", "k", "l", "m", "n", "o", "p", "q", "r", "s", "t", "u", "v", "w", "x", "y", "z">>

Min(a, b) == IF a < b THEN a ELSE b

Max(a, b) == IF a > b THEN a ELSE b

\* c.lower() for one character
LowerChar(c) ==
  IF \E i \in 1..Len(UPPER) : UPPER[i] = c
  THEN LOWER[CHOOSE i \in 1..Len(UPPER) : UPPER[i] = c]
  ELSE c

\* s.lower()
lower(s) == [i \in 1..Len(s) |-> LowerChar(s[i])]

\* the characters str.split() and str.strip() treat as whitespace
IsSpace(c) == c \in {" ", "\t", "\n"}

\* s[:k] for a list or str, negative k counted from the end
SliceTo(s, k) ==
  IF k >= 0 THEN SubSeq(s, 1, Min(k, Len(s)))
  ELSE SubSeq(s, 1, Max(0, Len(s) + k))

RECURSIVE split_from(_, _, _, _)
split_from(s, i, cur, acc) ==
  IF i > Len(s) THEN (IF cur = <<>> THEN acc ELSE Append(acc, cur))
  ELSE IF IsSpace(s[i])
       THEN split_from(s, i + 1, <<>>, IF cur = <<>> THEN acc ELSE Append(acc, cur))
       ELSE split_from(s, i + 1, Append(cur, s[i]), acc)

\* s.split(): the maximal runs of non-whitespace characters
split(s) == split_from(s, 1, <<>>, <<>>)

RECURSIVE split_on_from(_, _, _, _, _)
split_on_from(s, sep, i, cur, acc) ==
  IF i > Len(s) THEN Append(acc, cur)
  ELSE IF s[i] = sep
       THEN split_on_from(s, sep, i + 1, <<>>, Append(acc, cur))
       ELSE split_on_from(s, sep, i + 1, Append(cur, s[i]), acc)

\* s.split(sep) for a one-character separator: empty fields are kept
split_on(s, sep) == split_on_from(s, sep, 1, <<>>, <<>>)

RECURSIVE rstrip(_, _)
\* s.rstrip(chars)
rstrip(s, chars) ==
  IF s # <<>> /\ s[Len(s)] \in chars THEN rstrip(SubSeq(s, 1, Len(s) - 1), chars) ELSE s

RECURSIVE lstrip(_, _)
lstrip(s, chars) ==
  IF s # <<>> /\ s[1] \in chars THEN lstrip(Tail(s), chars) ELSE s

\* s.strip()
strip(s) == lstrip(rstrip(s, {" ", "\t", "\n"}), {" ", "\t", "\n"})

RECURSIVE join(_, _)
\* sep.join(words)
join(sep, words) ==
  IF words = <<>> THEN <<>>
  ELSE IF Len(words) = 1 THEN words[1]
  ELSE words[1] \o sep \o join(sep, Tail(words))

\* s.replace(old, new) for one-character old and new
replace(s, old, new) == [i \in 1..Len(s) |-> IF s[i] = old THEN new ELSE s[i]]

\* w in s, the substring test
Contains(s, w) ==
  \E i \in 0..(Len(s) - Len(w)) : \A j \in 1..Len(w) : s[i + j] = w[j]

Range(s) == {s[i] : i \in 1..Len(s)}

\* any(w in s for w in words)
AnyIn(words, s) == \E k \in 1..Len(words) : Contains(s, words[k])

TitleNine == <<"A", " ", "B", " ", "C", " ", "D", " ", "E", " ", "F", " ", "G", " ", "H", " ", "I">>
TitleThree == <<"A", " ", "B", " ", "C">>
TitleLong == <<"t", "h", "e", " ", "B", " ", "C", " ", "D", " ", "E", " ", "F", " ", "G", " ", "H", " ", "I", " ", "o", "f", " ", "J", " ">>
AuthorsForenameFirst == <<"J", "a", "n", "e", " ", "D", "o", "e", ",", " ", "J", "o", "h", "n", " ", "Q", ".", " ", "S", "m", "i", "t", "h">>
TitlePunct == <<"B", ",", " ", "C", ";", " ", "D">>
AuthorsPubMed == <<"D", "o", "e", " ", "J", ",", " ", "S", "m", "i", "t", "h", " ", "J", "Q">>

(***************************************************************************)
(* Summarizer: create_summary, create_key_findings,                        *)
(* extract_last_author_name                                                *)
(***************************************************************************)

Ellipsis == <<".", ".", ".">>

\* create_summary keeping max_words words of a long title instead of max_words - 1
create_summary_keeps_n(title, max_words) ==
  LET words == split(title)
      summary == join(<<" ">>, SliceTo(words, max_words))
  IN IF Len(words) > max_words
     THEN rstrip(summary, {".", ",", ";", ":"}) \o Ellipsis
     ELSE summary

create_summary(title, max_words) ==
  LET words == split(title)
      summary_words == IF Len(words) <= max_words
                       THEN SliceTo(words, max_words)
                       ELSE SliceTo(words, max_words - 1)
      summary == join(<<" ">>, summary_words)
  IN IF Len(words) > max_words
     THEN rstrip(summary, {".", ",", ";", ":"}) \o Ellipsis
     ELSE summary

\* the pinned threshold of create_key_findings
KeepAllBelow == 10

\* create_key_findings with the threshold test off by one (<= instead of <)
create_key_findings_le(title, max_words) ==
  LET words == split(replace(title, ":", " "))
      nonskip == Len(SelectSeq(words, LAMBDA x : lower(x) \notin skip))
      filtered == SelectSeq(words, LAMBDA w : lower(w) \notin skip \/ nonskip <= KeepAllBelow)
  IN join(<<" ">>, SliceTo(filtered, max_words))

create_key_findings(title, max_words) ==
  LET words == split(replace(title, ":", " "))
      nonskip == Len(SelectSeq(words, LAMBDA x : lower(x) \notin skip))
      filtered == SelectSeq(words, LAMBDA w : lower(w) \notin skip \/ nonskip < KeepAllBelow)
      key_words == SliceTo(filtered, max_words)
  IN join(<<" ">>, key_words)

\* extract_last_author_name taking the last token of the last entry
extract_last_author_name_last_token(authors_string) ==
  IF authors_string = <<>> THEN <<>>
  ELSE LET fields == split_on(authors_string, ",")
           parts == split(strip(fields[Len(fields)]))
       IN IF parts # <<>> THEN parts[Len(parts)] ELSE <<>>

extract_last_author_name(authors_string) ==
  IF authors_string = <<>> THEN <<>>
  ELSE LET fields == split_on(authors_string, ",")
           authors == [i \in 1..Len(fields) |-> strip(fields[i])]
       IN IF Len(authors) = 0 THEN <<>>
          ELSE LET last_author == authors[Len(authors)]
                   parts == split(last_author)
               IN IF parts # <<>> THEN parts[1] ELSE <<>>

(***************************************************************************)
(* Dates: datetime.strptime(s, '%Y-%m-%d'), strftime('%Y-%m-%d'),          *)
(* timedelta(days=7)                                                       *)
(***************************************************************************)

DIGITS == <<"0", "1", "2", "3", "4", "5", "6", "7", "8", "9">>

IsDigit(c) == \E i \in 1..10 : DIGITS[i] = c

DigitValue(c) == (CHOOSE i \in 1..10 : DIGITS[i] = c) - 1

AllDigits(s) == \A i \in 1..Len(s) : IsDigit(s[i])

RECURSIVE int(_)
\* int(s) for a str of decimal digits
int(s) == IF s = <<>> THEN 0 ELSE 10 * int(SubSeq(s, 1, Len(s) - 1)) + DigitValue(s[Len(s)])

IsLeap(y) == (y % 4 = 0 /\ y % 100 # 0) \/ y % 400 = 0

DaysInMonth(y, m) ==
  IF m = 2 THEN (IF IsLeap(y) THEN 29 ELSE 28)
  ELSE IF m \in {4, 6, 9, 11} THEN 30 ELSE 31

\* the fields %Y, %m and %d accept: \d\d\d\d, 1[0-2]|0[1-9]|[1-9],
\* 3[01]|[12]\d|0[1-9]|[1-9]| [1-9]
YearField(f) == Len(f) = 4 /\ AllDigits(f)

MonthField(f) == Len(f) \in {1, 2} /\ AllDigits(f) /\ int(f) \in 1..12

DayField(f) ==
  \/ Len(f) \in {1, 2} /\ AllDigits(f) /\ int(f) \in 1..31
  \/ Len(f) = 2 /\ f[1] = " " /\ IsDigit(f[2]) /\ int(<<f[2]>>) \in 1..9

\* whether datetime.strptime(s, '%Y-%m-%d') returns; it raises ValueError otherwise
strptime_ok(s) ==
  LET f == split_on(s, "-")
  IN /\ Len(f) = 3
     /\ YearField(f[1]) /\ MonthField(f[2]) /\ DayField(f[3])
     /\ int(f[1]) >= 1
     /\ int(strip(f[3])) <= DaysInMonth(int(f[1]), int(f[2]))

\* datetime.strptime(s, '%Y-%m-%d') as <<year, month, day>>, for a str it accepts
strptime(s) ==
  LET f == split_on(s, "-") IN <<int(f[1]), int(f[2]), int(strip(f[3]))>>

RECURSIVE zero_padded(_, _)
\* n written in decimal with at least width digits
zero_padded(n, width) ==
  IF width <= 1 /\ n < 10 THEN <<DIGITS[n + 1]>>
  ELSE zero_padded(n \div 10, width - 1) \o <<DIGITS[(n % 10) + 1]>>

\* d.strftime('%Y-%m-%d')
strftime(d) ==
  zero_padded(d[1], 4) \o <<"-">> \o zero_padded(d[2], 2) \o <<"-">> \o zero_padded(d[3], 2)

previous_day(d) ==
  IF d[3] > 1 THEN <<d[1], d[2], d[3] - 1>>
  ELSE IF d[2] > 1 THEN <<d[1], d[2] - 1, DaysInMonth(d[1], d[2] - 1)>>
  ELSE <<d[1] - 1, 12, 31>>

RECURSIVE minus_days(_, _)
\* d - timedelta(days=n)
minus_days(d, n) == IF n = 0 THEN d ELSE minus_days(previous_day(d), n - 1)

\* d1 <= d2 for two dates
date_le(d1, d2) ==
  \/ d1[1] < d2[1]
  \/ d1[1] = d2[1] /\ d1[2] < d2[2]
  \/ d1[1] = d2[1] /\ d1[2] = d2[2] /\ d1[3] <= d2[3]

\* the days main() goes back from the end date when --start is not given
DefaultDays == 7

\* datetime.now() on the day of the run
Today == <<2026, 2, 8>>

DateEarly == <<"2", "0", "2", "6", "-", "0", "2", "-", "0", "1">>

DateLate == <<"2", "0", "2", "6", "-", "0", "2", "-", "0", "8">>

DateBadDay == <<"2", "0", "2", "6", "-", "2", "-", "3", "0">>

DateSlashes == <<"2", "0", "2", "6", "/", "0", "2", "/", "0", "8">>

\* what --start and --end may hold; the empty str stands for an option not given
\* (None and '' are both falsy in main)
CliValues == {<<>>, DateEarly, DateLate, DateBadDay, DateSlashes}

\* what the two date pickers of the page may hold
PickerDates == {<<2026, 2, 1>>, <<2026, 2, 8>>}

(***************************************************************************)
(* What the three upstream services may answer                             *)
(***************************************************************************)

Pmid101 == <<"1", "0", "1">>

Pmid102 == <<"1", "0", "2">>

Pmid103 == <<"1", "0", "3">>

Pmid104 == <<"1", "0", "4">>

AllPmids == <<Pmid101, Pmid102, Pmid103, Pmid104>>

\* the esummary entry of each identifier, when the response carries a well-formed one
Article(pmid) ==
  IF pmid = Pmid101 THEN
  [title |-> <<"D", "r", "u", "g", " ", "P", "a", "t", "h", "w", "a", "y">>,
   authors |-> <<<<"D", "o", "e", " ", "J">>, <<"S", "m", "i", "t", "h", " ", "J", "Q">>>>,
   source |-> <<"B", "l", "o", "o", "d">>,
   pubdate |-> <<"2", "0", "2", "6", " ", "F", "e", "b", " ", "3">>,
   articleids |-> <<[idtype |-> <<"p", "u", "b", "m", "e", "d">>, value |-> <<"1", "0", "1">>],
                   [idtype |-> <<"d", "o", "i">>, value |-> <<"1", "0", ".", "1", "/", "a">>]>>]
  ELSE IF pmid = Pmid102 THEN
  [title |-> <<"T", "R", "I", "A", "L">>,
   authors |-> <<>>,
   source |-> <<"C", "e", "l", "l">>,
   pubdate |-> <<"2", "0", "2", "6">>,
   articleids |-> <<[idtype |-> <<"p", "u", "b", "m", "e", "d">>, value |-> <<"1", "0", "2">>]>>]
  ELSE IF pmid = Pmid103 THEN
  [title |-> <<>>,
   authors |-> <<<<"K", "i", "m", " ", "D">>>>,
   source |-> <<>>,
   pubdate |-> <<>>,
   articleids |-> <<[idtype |-> <<"p", "u", "b", "m", "e", "d">>, value |-> <<"1", "0", "3">>]>>]
  ELSE
  [title |-> <<"S", "c", "h", "i", "n", "z", "e", "l", "-", "G", "i", "e", "d", "i", "o", "n">>,
   authors |-> <<<<"N", "g", " ", "E">>>>,
   source |-> <<"G", "e", "n", "e">>,
   pubdate |-> <<"2", "0", "2", "5", " ", "D", "e", "c">>,
   articleids |-> <<[idtype |-> <<"p", "u", "b", "m", "e", "d">>, value |-> <<"1", "0", "4">>],
                   [idtype |-> <<"d", "o", "i">>, value |-> <<"1", "0", ".", "1", "/", "d">>]>>]

\* items of a preprint listing page; date_is_null marks an item whose 'date' is null
ItemWithDoi ==
  [title |-> <<"C", "o", "h", "o", "r", "t", " ", "o", "f", " ", "m", "i", "c", "e">>,
   abstract |-> <<"S", "E", "T", "B", "P", "1", " ", "v", "a", "r", "i", "a", "n", "t", "s">>,
   authors |-> <<"R", "o", "e", ",", " ", "A", ".", ";", " ", "P", "o", "e", ",", " ", "B", ".">>,
   date |-> <<"2", "0", "2", "6", "-", "0", "2", "-", "0", "3">>,
   doi |-> <<"1", "0", ".", "2", "/", "b">>,
   date_is_null |-> FALSE]

ItemNoDoi ==
  [title |-> <<"s", "g", "d", " ", "r", "e", "g", "i", "s", "t", "r", "y">>,
   abstract |-> <<>>,
   authors |-> <<"L", "e", "e", " ", "C">>,
   date |-> <<"2", "0", "2", "6", "-", "0", "2", "-", "0", "4">>,
   doi |-> <<>>,
   date_is_null |-> FALSE]

ItemIrrelevant ==
  [title |-> <<"L", "i", "v", "e", "r", " ", "a", "t", "l", "a", "s">>,
   abstract |-> <<"m", "i", "c", "e">>,
   authors |-> <<"M", "o", "e", " ", "F">>,
   date |-> <<"2", "0", "2", "6", "-", "0", "2", "-", "0", "5">>,
   doi |-> <<"1", "0", ".", "2", "/", "e">>,
   date_is_null |-> FALSE]

ItemNullDate ==
  [title |-> <<"S", "E", "T", "B", "P", "1", " ", "s", "t", "r", "a", "t", "e", "g", "y">>,
   abstract |-> <<>>,
   authors |-> <<>>,
   date |-> <<>>,
   doi |-> <<"1", "0", ".", "2", "/", "c">>,
   date_is_null |-> TRUE]

\* the 'collection' arrays a listing page may carry
Collections ==
  {<<>>, <<ItemIrrelevant, ItemWithDoi>>, <<ItemNoDoi, ItemNullDate>>}

(***************************************************************************)
(* Structured-metadata adapter: search_pubmed, get_pubmed_metadata         *)
(***************************************************************************)

\* the batch_size get_pubmed_metadata is called with (100 in the program)
batch_size == 2

max_retries == 3

\* the idlist values of an esearch response
IdLists == {<<>>, SubSeq(AllPmids, 1, 1), SubSeq(AllPmids, 1, Min(batch_size + 1, Len(AllPmids)))}

\* pmids of search_pubmed: the idlist, or [] when the request or the parse fails
search_pubmed(resp) == IF resp.status = "error" THEN <<>> ELSE resp.idlist

SearchResponses == {[status |-> "error", idlist |-> <<>>]}
                     \cup {[status |-> "ok", idlist |-> l] : l \in IdLists}

\* the metadata dict built for one identifier from its esummary entry
metadata_of(pmid, article) ==
  LET all_authors == article.authors
      authors_string == IF all_authors # <<>> THEN join(<<",", " ">>, all_authors) ELSE <<>>
      dois == SelectSeq(article.articleids, LAMBDA id : id.idtype = <<"d", "o", "i">>)
  IN [pmid |-> pmid,
      title |-> article.title,
      authors |-> authors_string,
      journal |-> article.source,
      year |-> IF article.pubdate # <<>> THEN split(article.pubdate)[1] ELSE <<>>,
      doi |-> IF dois # <<>> THEN dois[1].value ELSE <<>>,
      source |-> <<"P", "u", "b", "M", "e", "d">>]

RECURSIVE process_batch_from(_, _, _, _)
\* the loop over the identifiers of a batch: an entry that is no dict raises when
\* its fields are read, after the records of the entries before it were appended
process_batch_from(batch, entries, k, acc) ==
  IF k > Len(batch) THEN [records |-> acc, raised |-> FALSE]
  ELSE IF entries[k] = "absent" THEN process_batch_from(batch, entries, k + 1, acc)
  ELSE IF entries[k] = "malformed" THEN [records |-> acc, raised |-> TRUE]
  ELSE process_batch_from(batch, entries, k + 1,
                          Append(acc, metadata_of(batch[k], Article(batch[k]))))

\* the back-off computed from the attempt number counted from 0
wait_time_from_zero(attempt) == attempt * 2

\* wait_time, in seconds, after the failed attempt numbered attempt (from 0)
wait_time(attempt) == (attempt + 1) * 2

\* time.sleep(0.5) after each batch, in milliseconds
rate_limit_ms == 500

\* one attempt of the retry loop: what it appends to all_metadata, and whether it
\* ended in the except clause
attempt_batch(batch, resp) ==
  IF resp.status = "error" THEN [records |-> <<>>, raised |-> TRUE]
  ELSE process_batch_from(batch, resp.entries, 1, <<>>)

\* the answers to one esummary request for a batch: a transport or JSON error, or
\* a result in which every identifier is present, the last one is missing, or the
\* last one is no dict
SummaryResponses(batch) ==
  LET n == Len(batch)
      AllOk == [k \in 1..n |-> "ok"]
  IN {[status |-> "error", entries |-> <<>>]}
       \cup {[status |-> "ok", entries |-> e] :
               e \in {AllOk, [AllOk EXCEPT ![n] = "absent"], [AllOk EXCEPT ![n] = "malformed"]}}

(***************************************************************************)
(* SpecText: the summarizer functions applied to typed-in text             *)
(***************************************************************************)

\* how many pieces may be appended to a seed text
MaxTyped == 3

SeedTexts ==
  {<<>>, TitleNine, TitleThree, TitleLong, TitlePunct, AuthorsForenameFirst, AuthorsPubMed}

Pieces == {<<"B">>, <<"t", "h", "e">>, <<" ">>, <<":">>, <<",">>}

\* max_words as the callers pass it: 7 from create_excel_report, the default 8,
\* and small values that short texts exceed
SummaryWords == {1, 2, 7, 8}

\* max_words of create_key_findings: the 20 both callers use, and a small cap
FindingsWords == {2, 20}

textVars == <<text, typed, call, papers_in>>

runVars == <<pc, caller, args, searcher, network, adapters, pm, pp, found, files, outcome>>

NoFile == [written |-> FALSE, rows |-> <<>>]

NoPdf == [written |-> FALSE, pubmed_count |-> 0, biorxiv_count |-> 0, medrxiv_count |-> 0,
          total |-> 0, complete_list |-> <<>>]

NoResults ==
  [returned |-> FALSE, has_excel |-> FALSE, has_pdf |-> FALSE, total_papers |-> 0,
   paper_counts |-> [PubMed |-> 0, bioRxiv |-> 0, medRxiv |-> 0],
   categories |-> <<>>]

\* the state before the process starts: no object, no request, no file
RunIdle ==
  /\ pc = "start"
  /\ caller = "none"
  /\ args = [start |-> <<>>, end |-> <<>>]
  /\ searcher = [start_date |-> <<>>, end_date |-> <<>>, all_papers |-> <<>>]
  /\ network = FALSE
  /\ adapters = [called |-> {}, returned |-> {}]
  /\ pm = [pmids |-> <<>>, i |-> 0, attempt |-> 0, all_metadata |-> <<>>, abandoned |-> {},
           fetched |-> <<>>, requests |-> 0, raised |-> FALSE, slept |-> 0]
  /\ pp = [papers |-> <<>>, cursor |-> 0]
  /\ found = [pubmed_papers |-> <<>>, biorxiv_papers |-> <<>>, medrxiv_papers |-> <<>>]
  /\ files = [excel |-> NoFile, pdf |-> NoPdf]
  /\ outcome = [exit_status |-> -1, raised |-> FALSE, results |-> NoResults]

NoCall == [fn |-> "none", arg |-> 0, ret |-> <<>>]

InitText ==
  /\ text \in SeedTexts
  /\ typed = 0
  /\ call = NoCall
  /\ papers_in = <<>>
  /\ RunIdle

TypePiece ==
  /\ typed < MaxTyped
  /\ \E p \in Pieces : text' = text \o p
  /\ typed' = typed + 1
  /\ call' = NoCall
  /\ UNCHANGED <<papers_in, runVars>>

CallCreateSummary ==
  /\ \E n \in SummaryWords :
       call' = [fn |-> "create_summary", arg |-> n, ret |-> create_summary(text, n)]
  /\ UNCHANGED <<text, typed, papers_in, runVars>>

CallCreateKeyFindings ==
  /\ \E m \in FindingsWords :
       call' = [fn |-> "create_key_findings", arg |-> m, ret |-> create_key_findings(text, m)]
  /\ UNCHANGED <<text, typed, papers_in, runVars>>

CallExtractLastAuthorName ==
  /\ call' = [fn |-> "extract_last_author_name", arg |-> 0,
              ret |-> extract_last_author_name(text)]
  /\ UNCHANGED <<text, typed, papers_in, runVars>>


vars == <<text, typed, call, papers_in, pc, caller, args, searcher, network, adapters,
          pm, pp, found, files, outcome>>

NextText ==
  \/ TypePiece
  \/ CallCreateSummary
  \/ CallCreateKeyFindings
  \/ CallExtractLastAuthorName

SpecText == InitText /\ [][NextText]_vars

(***************************************************************************)
(* Claims about the summarizer (checked under SpecText)                    *)
(***************************************************************************)

Punctuation == {".", ",", ";", ":"}

IsStopWord(w) == lower(w) \in skip

\* C8 as stated: a title of more than N words gives its first N-1 words, trailing
\* punctuation stripped, then the ellipsis; a title of N words or fewer is returned
\* unchanged.
C8_SummaryAsStated ==
  call.fn = "create_summary" =>
    LET words == split(text)
        N == call.arg
    IN IF Len(words) > N
       THEN call.ret = rstrip(join(<<" ">>, SubSeq(words, 1, N - 1)), Punctuation) \o Ellipsis
       ELSE call.ret = text

\* C8 amended: a title of more than N words gives its first N-1 words, trailing
\* punctuation stripped, then the ellipsis; a title of N words or fewer gives its
\* words, each unchanged and none dropped, joined by single spaces (so the title
\* itself when its words are already separated by single spaces), no ellipsis added.
C8_SummaryAmended ==
  call.fn = "create_summary" =>
    LET words == split(text)
        N == call.arg
    IN IF Len(words) > N
       THEN call.ret = rstrip(join(<<" ">>, SubSeq(words, 1, N - 1)), Punctuation) \o Ellipsis
       ELSE /\ call.ret = join(<<" ">>, words)
            /\ (text = join(<<" ">>, words) => call.ret = text)

\* a title of more than N words whose last kept word ends in punctuation was cut
C8_Witness ==
  /\ call.fn = "create_summary"
  /\ Len(split(text)) > call.arg
  /\ call.arg >= 2
  /\ LET kept == join(<<" ">>, SubSeq(split(text), 1, call.arg - 1))
     IN /\ kept[Len(kept)] \in Punctuation
        /\ call.ret = rstrip(kept, Punctuation) \o Ellipsis

\* C9: with colons replaced by spaces, a title of 10 or more non-stop-words yields
\* only its non-stop-words, a title of fewer than 10 yields all its words, and the
\* output is the first at most M of those words, in order, joined by spaces.
C9_KeyFindings ==
  call.fn = "create_key_findings" =>
    LET words == split(replace(text, ":", " "))
        nonstop == SelectSeq(words, LAMBDA w : ~IsStopWord(w))
        base == IF Len(nonstop) >= 10 THEN nonstop ELSE words
        M == call.arg
    IN call.ret = join(<<" ">>, SubSeq(base, 1, Min(M, Len(base))))

\* a title with at least 10 non-stop-words and a stop-word lost its stop-words
C9_Witness ==
  /\ call.fn = "create_key_findings"
  /\ call.arg = 20
  /\ LET words == split(replace(text, ":", " "))
     IN /\ Len(SelectSeq(words, LAMBDA w : ~IsStopWord(w))) >= 10
        /\ \E i \in 1..Len(words) : IsStopWord(words[i])
        /\ \A w \in {x \in Range(split(call.ret)) : TRUE} : ~IsStopWord(w)
        /\ Len(split(call.ret)) = 10

Smith == <<"S", "m", "i", "t", "h">>

John == <<"J", "o", "h", "n">>

CategoryNames == {"mechanism", "therapeutics", "models", "dataset", "other"}

\* the if/elif chain of categorize_papers with the first two tests exchanged
category_of_therapeutics_first(paper) ==
  LET title_lower == lower(paper.title)
  IN IF AnyIn(TherapeuticsWords, title_lower) THEN "therapeutics"
     ELSE IF AnyIn(MechanismWords, title_lower) THEN "mechanism"
     ELSE IF AnyIn(ModelsWords, title_lower) THEN "models"
     ELSE IF AnyIn(DatasetWords, title_lower) THEN "dataset"
     ELSE "other"

\* the if/elif chain of categorize_papers: the bucket one paper is appended to
category_of(paper) ==
  LET title_lower == lower(paper.title)
  IN IF AnyIn(MechanismWords, title_lower) THEN "mechanism"
     ELSE IF AnyIn(TherapeuticsWords, title_lower) THEN "therapeutics"
     ELSE IF AnyIn(ModelsWords, title_lower) THEN "models"
     ELSE IF AnyIn(DatasetWords, title_lower) THEN "dataset"
     ELSE "other"

RECURSIVE categorize_from(_, _, _)
categorize_from(papers, i, categories) ==
  IF i > Len(papers) THEN categories
  ELSE LET c == category_of(papers[i])
       IN categorize_from(papers, i + 1,
                          [categories EXCEPT ![c] = Append(@, papers[i])])

categorize_papers(papers) ==
  categorize_from(papers, 1, [c \in CategoryNames |-> <<>>])

DoiBase == <<"h", "t", "t", "p", "s", ":", "/", "/", "d", "o", "i", ".", "o", "r", "g", "/">>

PubmedBase == <<"h", "t", "t", "p", "s", ":", "/", "/", "p", "u", "b", "m", "e", "d", ".", "n", "c", "b", "i", ".", "n", "l", "m", ".", "n", "i", "h", ".", "g", "o", "v", "/">>

\* the link of create_excel_report with the PMID tested before the DOI
excel_link_pmid_first(paper) ==
  IF paper.pmid # <<>> THEN PubmedBase \o paper.pmid \o <<"/">>
  ELSE IF paper.doi # <<>> THEN DoiBase \o paper.doi
  ELSE <<>>

\* column J of create_excel_report: the link of one row
excel_link(paper) ==
  LET doi == paper.doi
      pmid == paper.pmid
  IN IF doi # <<>> THEN DoiBase \o doi
     ELSE IF pmid # <<>> THEN PubmedBase \o pmid \o <<"/">>
     ELSE <<>>

_paper_link(paper) ==
  LET doi == paper.doi
      pmid == paper.pmid
  IN IF doi # <<>> THEN DoiBase \o doi
     ELSE IF pmid # <<>> THEN PubmedBase \o pmid \o <<"/">>
     ELSE <<>>

\* the markup of a clickable label: <link href="{href}" color="blue">{shown}</link>
LinkOpen == <<"<", "l", "i", "n", "k", " ", "h", "r", "e", "f", "=", "\"">>

LinkMid == <<"\"", " ", "c", "o", "l", "o", "r", "=", "\"", "b", "l", "u", "e", "\"", ">">>

LinkClose == <<"<", "/", "l", "i", "n", "k", ">">>

PmidPrefix == <<"P", "M", "I", "D", ":", " ">>

DoiPrefix == <<"D", "O", "I", ":", " ">>

_paper_link_label(paper) ==
  LET doi == paper.doi
      pmid == paper.pmid
      link == _paper_link(paper)
  IN IF link = <<>> THEN <<>>
     ELSE IF pmid # <<>> THEN LinkOpen \o link \o LinkMid \o PmidPrefix \o pmid \o LinkClose
     ELSE IF doi # <<>> THEN LinkOpen \o link \o LinkMid \o DoiPrefix \o doi \o LinkClose
     ELSE <<>>

\* max_words as create_excel_report passes it to create_summary
ExcelSummaryWords == 7

\* max_words as create_excel_report passes it to create_key_findings
ExcelFindingsWords == 20

\* one data row of the sheet; a cell that is never assigned (value None,
\* hyperlink None) is the empty str in both fields
excel_row(paper) ==
  LET link == excel_link(paper)
  IN [D |-> create_summary(paper.title, ExcelSummaryWords),
      E |-> extract_last_author_name(paper.authors),
      F |-> paper.journal,
      G |-> create_key_findings(paper.title, ExcelFindingsWords),
      J |-> IF link # <<>> THEN [value |-> link, hyperlink |-> link]
            ELSE [value |-> <<>>, hyperlink |-> <<>>]]

\* the data rows create_excel_report saves, one per paper, in order
create_excel_report(papers) == [i \in 1..Len(papers) |-> excel_row(papers[i])]

(***************************************************************************)
(* SpecReport: the classifier and the spreadsheet renderer applied to      *)
(* lists of paper records                                                  *)
(***************************************************************************)

PaperBoth ==
  [pmid |-> <<"1", "0", "1">>,
   title |-> <<"D", "r", "u", "g", " ", "P", "a", "t", "h", "w", "a", "y">>,
   authors |-> <<"D", "o", "e", " ", "J", ",", " ", "S", "m", "i", "t", "h", " ", "J", "Q">>,
   journal |-> <<"B", "l", "o", "o", "d">>,
   year |-> <<"2", "0", "2", "6">>,
   doi |-> <<"1", "0", ".", "1", "/", "a">>,
   source |-> <<"P", "u", "b", "M", "e", "d">>]

PaperPmidOnly ==
  [pmid |-> <<"1", "0", "2">>,
   title |-> <<"T", "R", "I", "A", "L">>,
   authors |-> <<>>,
   journal |-> <<"C", "e", "l", "l">>,
   year |-> <<"2", "0", "2", "6">>,
   doi |-> <<>>,
   source |-> <<"P", "u", "b", "M", "e", "d">>]

PaperDoiOnly ==
  [pmid |-> <<>>,
   title |-> <<"C", "o", "h", "o", "r", "t", " ", "o", "f", " ", "m", "i", "c", "e">>,
   authors |-> <<"R", "o", "e", ",", " ", "A", ".", ";", " ", "P", "o", "e", ",", " ", "B", ".">>,
   journal |-> <<"b", "i", "o", "r", "x", "i", "v", " ", "(", "p", "r", "e", "p", "r", "i", "n", "t", ")">>,
   year |-> <<"2", "0", "2", "6">>,
   doi |-> <<"1", "0", ".", "2", "/", "b">>,
   source |-> <<"b", "i", "o", "r", "x", "i", "v">>]

PaperNeither ==
  [pmid |-> <<>>,
   title |-> <<"s", "g", "d", " ", "r", "e", "g", "i", "s", "t", "r", "y">>,
   authors |-> <<"L", "e", "e", " ", "C">>,
   journal |-> <<"m", "e", "d", "r", "x", "i", "v", " ", "(", "p", "r", "e", "p", "r", "i", "n", "t", ")">>,
   year |-> <<"2", "0", "2", "6">>,
   doi |-> <<>>,
   source |-> <<"m", "e", "d", "r", "x", "i", "v">>]

PaperUntitled ==
  [pmid |-> <<"1", "0", "3">>,
   title |-> <<>>,
   authors |-> <<"K", "i", "m", " ", "D">>,
   journal |-> <<>>,
   year |-> <<>>,
   doi |-> <<>>,
   source |-> <<"P", "u", "b", "M", "e", "d">>]

PaperSubstring ==
  [pmid |-> <<>>,
   title |-> <<"S", "E", "T", "B", "P", "1", " ", "s", "t", "r", "a", "t", "e", "g", "y">>,
   authors |-> <<>>,
   journal |-> <<"m", "e", "d", "r", "x", "i", "v", " ", "(", "p", "r", "e", "p", "r", "i", "n", "t", ")">>,
   year |-> <<>>,
   doi |-> <<"1", "0", ".", "2", "/", "c">>,
   source |-> <<"m", "e", "d", "r", "x", "i", "v">>]

PaperOther ==
  [pmid |-> <<"1", "0", "4">>,
   title |-> <<"S", "c", "h", "i", "n", "z", "e", "l", "-", "G", "i", "e", "d", "i", "o", "n">>,
   authors |-> <<"N", "g", " ", "E">>,
   journal |-> <<"G", "e", "n", "e">>,
   year |-> <<"2", "0", "2", "5">>,
   doi |-> <<"1", "0", ".", "1", "/", "d">>,
   source |-> <<"P", "u", "b", "M", "e", "d">>]

PaperPool ==
  {PaperBoth, PaperPmidOnly, PaperDoiOnly, PaperNeither, PaperUntitled,
   PaperSubstring, PaperOther}

\* how many records a list handed to a renderer may hold
MaxPapers == 2

InitReport ==
  /\ papers_in = <<>>
  /\ call = NoCall
  /\ text = <<>>
  /\ typed = 0
  /\ RunIdle

AddPaper ==
  /\ Len(papers_in) < MaxPapers
  /\ \E p \in PaperPool : papers_in' = Append(papers_in, p)
  /\ call' = NoCall
  /\ UNCHANGED <<text, typed, runVars>>

CallCategorizePapers ==
  /\ call' = [fn |-> "categorize_papers", arg |-> 0, ret |-> categorize_papers(papers_in)]
  /\ UNCHANGED <<text, typed, papers_in, runVars>>

CallCreateExcelReport ==
  /\ call' = [fn |-> "create_excel_report", arg |-> 0,
              ret |-> create_excel_report(papers_in)]
  /\ UNCHANGED <<text, typed, papers_in, runVars>>

\* the citation lines of create_pdf_report: the label of each paper
CallPaperLinkLabel ==
  /\ call' = [fn |-> "_paper_link_label", arg |-> 0,
              ret |-> [i \in 1..Len(papers_in) |-> _paper_link_label(papers_in[i])]]
  /\ UNCHANGED <<text, typed, papers_in, runVars>>

NextReport ==
  \/ AddPaper
  \/ CallCategorizePapers
  \/ CallCreateExcelReport
  \/ CallPaperLinkLabel

SpecReport == InitReport /\ [][NextReport]_vars

(***************************************************************************)
(* Claims about the classifier and the links (checked under SpecReport)    *)
(***************************************************************************)

TriggerSets == <<MechanismWords, TherapeuticsWords, ModelsWords, DatasetWords>>

TriggerNames == <<"mechanism", "therapeutics", "models", "dataset">>

\* the bucket the claim assigns: the first trigger set, in the order mechanism,
\* therapeutics, models, dataset, with a term in the lower-cased title, else other
ClaimedCategory(title) ==
  LET t == lower(title)
      Hit(ws) == \E k \in 1..Len(ws) : Contains(t, ws[k])
      first == {n \in 1..4 : Hit(TriggerSets[n]) /\ \A m \in 1..(n - 1) : ~Hit(TriggerSets[m])}
  IN IF first = {} THEN "other" ELSE TriggerNames[CHOOSE n \in first : TRUE]

\* C6: categorize_papers puts every paper of its input into exactly one of the five
\* buckets, the one of the first matching trigger set in the order mechanism,
\* therapeutics, models, dataset, else other; a title with a mechanism term and a
\* therapeutics term is in mechanism; the buckets hold each input paper exactly once.
C6_Categorize ==
  call.fn = "categorize_papers" =>
    /\ DOMAIN call.ret = CategoryNames
    /\ \A c \in CategoryNames :
         call.ret[c] = SelectSeq(papers_in, LAMBDA p : ClaimedCategory(p.title) = c)
    /\ Len(call.ret["mechanism"]) + Len(call.ret["therapeutics"]) + Len(call.ret["models"])
         + Len(call.ret["dataset"]) + Len(call.ret["other"]) = Len(papers_in)
    /\ \A i \in 1..Len(papers_in) :
         LET t == lower(papers_in[i].title)
         IN AnyIn(MechanismWords, t) /\ AnyIn(TherapeuticsWords, t)
              => /\ papers_in[i] \in Range(call.ret["mechanism"])
                 /\ papers_in[i] \notin Range(call.ret["therapeutics"])

\* a list with a paper matching both the mechanism and the therapeutics set, and a
\* paper matching no set, was categorized
C6_Witness ==
  /\ call.fn = "categorize_papers"
  /\ \E i \in 1..Len(papers_in) :
       /\ AnyIn(MechanismWords, lower(papers_in[i].title))
       /\ AnyIn(TherapeuticsWords, lower(papers_in[i].title))
  /\ call.ret["other"] # <<>>

\* C7: the link of a record is the DOI URL when it has a DOI (also with a PMID), the
\* PubMed URL when it has only a PMID, blank when it has neither; column J of the
\* sheet and _paper_link agree on it, and the cell is a hyperlink exactly when the
\* link is not blank.
C7_Links ==
  call.fn = "create_excel_report" =>
    /\ Len(call.ret) = Len(papers_in)
    /\ \A i \in 1..Len(papers_in) :
         LET p == papers_in[i]
             claimed == IF p.doi # <<>> THEN DoiBase \o p.doi
                        ELSE IF p.pmid # <<>> THEN PubmedBase \o p.pmid \o <<"/">>
                        ELSE <<>>
             cell == call.ret[i].J
         IN /\ cell.value = claimed
            /\ _paper_link(p) = claimed
            /\ (cell.hyperlink # <<>>) <=> (claimed # <<>>)
            /\ cell.hyperlink = claimed

\* a sheet with a record that has both identifiers and a record that has neither
C7_Witness ==
  /\ call.fn = "create_excel_report"
  /\ \E i \in 1..Len(papers_in) : papers_in[i].doi # <<>> /\ papers_in[i].pmid # <<>>
  /\ \E i \in 1..Len(papers_in) :
       /\ papers_in[i].doi = <<>> /\ papers_in[i].pmid = <<>>
       /\ call.ret[i].J.value = <<>>

(***************************************************************************)
(* Preprint adapters: _is_setbp1_relevant, _search_preprint_server         *)
(***************************************************************************)

\* the test without .lower(): keywords are matched case-sensitively
_is_setbp1_relevant_case_sensitive(title, abstract) ==
  LET txt == title \o <<" ">> \o abstract
  IN AnyIn(SETBP1_KEYWORDS, txt)

_is_setbp1_relevant(title, abstract) ==
  LET txt == lower(title \o <<" ">> \o abstract)
  IN AnyIn(SETBP1_KEYWORDS, txt)

page_size == 100

\* the most pages a listing reports
MaxPages == 2

\* the 'total' a page may report in messages[0]
Totals == {0} \cup {k * page_size + r : k \in 1..(MaxPages - 1), r \in {0, 1}}

\* the 'messages' field of a page: a list whose first element has a numeric
\* 'total', no 'messages' key, an empty list, or a 'total' that int() rejects
MessagesValues ==
  {[kind |-> "total", total |-> n] : n \in Totals}
    \cup {[kind |-> k, total |-> 0] : k \in {"absent", "empty_list", "non_numeric"}}

\* the answers to one listing request: a transport or JSON error, or a page
PageResponses ==
  {[status |-> "error", collection |-> <<>>, messages |-> [kind |-> "absent", total |-> 0]]}
    \cup {[status |-> "ok", collection |-> c, messages |-> m] :
            c \in Collections, m \in MessagesValues}

\* the record appended for one relevant item
preprint_record(server, item) ==
  [pmid |-> <<>>,
   title |-> item.title,
   authors |-> item.authors,
   journal |-> server \o <<" ", "(", "p", "r", "e", "p", "r", "i", "n", "t", ")">>,
   year |-> SliceTo(item.date, 4),
   doi |-> item.doi,
   source |-> server]

RECURSIVE scan_collection_from(_, _, _, _)
\* the loop over the items of a page: slicing a null 'date' raises TypeError,
\* which nothing in _search_preprint_server catches
scan_collection_from(server, collection, k, acc) ==
  IF k > Len(collection) THEN [papers |-> acc, raised |-> FALSE]
  ELSE LET item == collection[k]
       IN IF ~_is_setbp1_relevant(item.title, item.abstract)
          THEN scan_collection_from(server, collection, k + 1, acc)
          ELSE IF item.date_is_null THEN [papers |-> acc, raised |-> TRUE]
          ELSE scan_collection_from(server, collection, k + 1,
                                    Append(acc, preprint_record(server, item)))

\* whether reading the total of a page raises: [][0] is an IndexError, int() of a
\* non-numeric str a ValueError
total_raises(messages) == messages.kind \in {"empty_list", "non_numeric"}

\* total_count of a page whose total can be read
total_count(messages) == IF messages.kind = "total" THEN messages.total ELSE 0

\* one turn of the while loop on the answer resp, from the locals p = [papers,
\* cursor]: the locals after it and how the turn ends ("continue", "break" for a
\* normal return of papers, "raise" for an exception leaving the function)
preprint_page(server, p, resp) ==
  IF resp.status = "error" THEN [papers |-> p.papers, cursor |-> p.cursor, ends |-> "break"]
  ELSE IF resp.collection = <<>>
  THEN [papers |-> p.papers, cursor |-> p.cursor, ends |-> "break"]
  ELSE LET scan == scan_collection_from(server, resp.collection, 1, p.papers)
       IN IF scan.raised \/ total_raises(resp.messages)
          THEN [papers |-> scan.papers, cursor |-> p.cursor, ends |-> "raise"]
          ELSE LET cursor == p.cursor + page_size
               IN [papers |-> scan.papers, cursor |-> cursor,
                   ends |-> IF cursor >= total_count(resp.messages) THEN "break"
                            ELSE "continue"]

(***************************************************************************)
(* Document renderer and orchestrator                                      *)
(***************************************************************************)

\* the summary table and the complete list of create_pdf_report
create_pdf_report(papers, pubmed_count, biorxiv_count, medrxiv_count) ==
  [written |-> TRUE,
   pubmed_count |-> pubmed_count,
   biorxiv_count |-> biorxiv_count,
   medrxiv_count |-> medrxiv_count,
   total |-> Len(papers),
   complete_list |-> papers]

\* the test of run() written as "all_papers is None", which a list never is
no_papers_is_none(all_papers) == FALSE

\* the test of run() that ends it before any report is written
no_papers(all_papers) == all_papers = <<>>

\* the try block of main(): both dates parse
dates_valid(start, end) == strptime_ok(start) /\ strptime_ok(end)

\* date_valid of the page: the Search button is enabled
date_valid(start_date, end_date) == date_le(start_date, end_date)

BIORXIV == <<"b", "i", "o", "r", "x", "i", "v">>

MEDRXIV == <<"m", "e", "d", "r", "x", "i", "v">>


(***************************************************************************)
(* Spec: one process, started from the command line or from the page       *)
(*                                                                         *)
(* pc: "start" -> "search_pubmed" -> "metadata" -> "biorxiv" -> "medrxiv"  *)
(* -> "report" -> "returned" (run() returned) or "raised" (an exception    *)
(* left run()) -> "exit"                                                   *)
(***************************************************************************)

Init ==
  /\ RunIdle
  /\ text = <<>>
  /\ typed = 0
  /\ call = NoCall
  /\ papers_in = <<>>

NewSearcher(start_date, end_date) ==
  [start_date |-> start_date, end_date |-> end_date, all_papers |-> <<>>]

\* main() up to the call of run(): defaults, validation, construction
Main ==
  /\ pc = "start"
  /\ \E start_in \in CliValues, end_in \in CliValues :
       LET end == IF end_in = <<>> THEN strftime(Today) ELSE end_in
       IN /\ caller' = "cli"
          /\ IF start_in = <<>> /\ ~strptime_ok(end)
             THEN \* strptime on line 654 raises outside the try block
                  /\ args' = [start |-> start_in, end |-> end]
                  /\ pc' = "exit"
                  /\ outcome' = [outcome EXCEPT !.exit_status = 1, !.raised = TRUE]
                  /\ UNCHANGED searcher
             ELSE LET start == IF start_in = <<>>
                               THEN strftime(minus_days(strptime(end), DefaultDays))
                               ELSE start_in
                  IN /\ args' = [start |-> start, end |-> end]
                     /\ IF dates_valid(start, end)
                        THEN /\ searcher' = NewSearcher(start, end)
                             /\ pc' = "search_pubmed"
                             /\ UNCHANGED outcome
                        ELSE /\ pc' = "exit"
                             /\ outcome' = [outcome EXCEPT !.exit_status = 1]
                             /\ UNCHANGED searcher
  /\ UNCHANGED <<network, adapters, pm, pp, found, files, textVars>>

\* the page: two dates picked, the Search button enabled and clicked, run_search
\* up to the call of run()
WebSearch ==
  /\ pc = "start"
  /\ \E start_date \in PickerDates, end_date \in PickerDates :
       /\ date_valid(start_date, end_date)
       /\ searcher' = NewSearcher(strftime(start_date), strftime(end_date))
  /\ caller' = "web"
  /\ pc' = "search_pubmed"
  /\ UNCHANGED <<args, network, adapters, pm, pp, found, files, outcome, textVars>>

\* run(): search_pubmed, and the test of pmids
SearchPubmed ==
  /\ pc = "search_pubmed"
  /\ network' = TRUE
  /\ \E resp \in SearchResponses :
       LET pmids == search_pubmed(resp)
       IN IF pmids # <<>>
          THEN /\ pm' = [pmids |-> pmids, i |-> 0, attempt |-> 0, all_metadata |-> <<>>,
                         abandoned |-> {}, fetched |-> <<>>,
                         requests |-> 0, raised |-> FALSE, slept |-> 0]
               /\ adapters' = [called |-> {"search_pubmed", "get_pubmed_metadata"},
                               returned |-> {"search_pubmed"}]
               /\ pc' = "metadata"
          ELSE /\ adapters' = [called |-> {"search_pubmed"}, returned |-> {"search_pubmed"}]
               /\ pc' = "biorxiv"
               /\ UNCHANGED pm
  /\ UNCHANGED <<caller, args, searcher, pp, found, files, outcome, textVars>>

\* get_pubmed_metadata: one attempt of the retry loop for the batch at pm.i; after
\* the last batch the function returns and run() extends all_papers.
\* pm.requests counts the esummary requests while the call runs, pm.raised tells
\* whether the last attempt ended in the except clause, pm.slept is the last
\* time.sleep in milliseconds
MetadataAttempt ==
  /\ pc = "metadata"
  /\ network' = TRUE
  /\ LET batch == SubSeq(pm.pmids, pm.i + 1, Min(pm.i + batch_size, Len(pm.pmids)))
         batch_num == (pm.i \div batch_size) + 1
     IN \E resp \in SummaryResponses(batch) :
          LET r == attempt_batch(batch, resp)
              all_metadata == pm.all_metadata \o r.records
              retry == r.raised /\ pm.attempt < max_retries - 1
              abandoned == IF r.raised /\ ~retry THEN pm.abandoned \cup {batch_num}
                           ELSE pm.abandoned
              fetched == IF r.raised THEN pm.fetched ELSE pm.fetched \o r.records
              last == pm.i + batch_size >= Len(pm.pmids)
          IN IF retry
             THEN /\ pm' = [pm EXCEPT !.attempt = @ + 1, !.all_metadata = all_metadata,
                                      !.requests = @ + 1, !.raised = TRUE,
                                      !.slept = 1000 * wait_time(pm.attempt)]
                  /\ UNCHANGED <<pc, found, searcher, adapters>>
             ELSE /\ pm' = [pm EXCEPT !.i = @ + batch_size, !.attempt = 0,
                                      !.all_metadata = all_metadata,
                                      !.abandoned = abandoned,
                                      !.fetched = fetched,
                                      !.requests = IF last THEN 0 ELSE @ + 1,
                                      !.raised = r.raised,
                                      !.slept = rate_limit_ms]
                  /\ IF last
                     THEN /\ found' = [found EXCEPT !.pubmed_papers = all_metadata]
                          /\ searcher' = [searcher EXCEPT !.all_papers = @ \o all_metadata]
                          /\ adapters' = [adapters EXCEPT
                                            !.returned = @ \cup {"get_pubmed_metadata"}]
                          /\ pc' = "biorxiv"
                     ELSE UNCHANGED <<pc, found, searcher, adapters>>
  /\ UNCHANGED <<caller, args, pp, files, outcome, textVars>>

\* the adapter method of run() that searches a server
method_of(server) == IF server = BIORXIV THEN "search_biorxiv" ELSE "search_medrxiv"

\* _search_preprint_server(server): one turn of its while loop
PreprintPage(server) ==
  /\ network' = TRUE
  /\ \E resp \in PageResponses :
       LET turn == preprint_page(server, pp, resp)
       IN IF turn.ends = "continue"
          THEN /\ pp' = [papers |-> turn.papers, cursor |-> turn.cursor]
               /\ adapters' = [adapters EXCEPT !.called = @ \cup {method_of(server)}]
               /\ UNCHANGED <<pc, found, searcher>>
          ELSE IF turn.ends = "raise"
          THEN /\ pc' = "raised"
               /\ adapters' = [adapters EXCEPT !.called = @ \cup {method_of(server)}]
               /\ UNCHANGED <<pp, found, searcher>>
          ELSE /\ pp' = [papers |-> <<>>, cursor |-> 0]
               /\ adapters' = [called |-> adapters.called \cup {method_of(server)},
                               returned |-> adapters.returned \cup {method_of(server)}]
               /\ IF server = BIORXIV
                  THEN /\ found' = [found EXCEPT !.biorxiv_papers = turn.papers]
                       /\ pc' = "medrxiv"
                       /\ UNCHANGED searcher
                  ELSE /\ found' = [found EXCEPT !.medrxiv_papers = turn.papers]
                       /\ searcher' = [searcher EXCEPT
                                         !.all_papers = @ \o found.biorxiv_papers \o turn.papers]
                       /\ pc' = "report"
  /\ UNCHANGED <<caller, args, pm, files, outcome, textVars>>

\* run(): search_biorxiv
SearchBiorxiv ==
  /\ pc = "biorxiv"
  /\ PreprintPage(BIORXIV)

\* run(): search_medrxiv, then the two extends of all_papers
SearchMedrxiv ==
  /\ pc = "medrxiv"
  /\ PreprintPage(MEDRXIV)

\* run() from the test of all_papers to its return
Report ==
  /\ pc = "report"
  /\ IF no_papers(searcher.all_papers)
     THEN UNCHANGED files
     ELSE files' = [excel |-> [written |-> TRUE,
                               rows |-> create_excel_report(searcher.all_papers)],
                    pdf |-> create_pdf_report(searcher.all_papers,
                                              Len(found.pubmed_papers),
                                              Len(found.biorxiv_papers),
                                              Len(found.medrxiv_papers))]
  /\ pc' = "returned"
  /\ UNCHANGED <<caller, args, searcher, network, adapters, pm, pp, found, outcome, textVars>>

\* how many records of papers carry the source tag
count_source(papers, tag) == Len(SelectSeq(papers, LAMBDA p : p.source = tag))

\* the dict run_search returns after run() returned
run_search_results ==
  LET categories == categorize_papers(searcher.all_papers)
  IN
  [returned |-> TRUE,
   has_excel |-> files.excel.written,
   has_pdf |-> files.pdf.written,
   total_papers |-> Len(searcher.all_papers),
   paper_counts |-> [PubMed |-> count_source(searcher.all_papers, <<"P", "u", "b", "M", "e", "d">>),
                     bioRxiv |-> count_source(searcher.all_papers, BIORXIV),
                     medRxiv |-> count_source(searcher.all_papers, MEDRXIV)],
   categories |-> [c \in CategoryNames |-> Len(categories[c])]]

\* run() returned: main() returns 0, run_search returns its dict
Return ==
  /\ pc = "returned"
  /\ outcome' = IF caller = "cli" THEN [outcome EXCEPT !.exit_status = 0]
                ELSE [outcome EXCEPT !.results = run_search_results]
  /\ pc' = "exit"
  /\ UNCHANGED <<caller, args, searcher, network, adapters, pm, pp, found, files, textVars>>

\* an exception left run(): nothing in main() or run_search catches it
Propagate ==
  /\ pc = "raised"
  /\ outcome' = IF caller = "cli" THEN [outcome EXCEPT !.exit_status = 1, !.raised = TRUE]
                ELSE [outcome EXCEPT !.raised = TRUE]
  /\ pc' = "exit"
  /\ UNCHANGED <<caller, args, searcher, network, adapters, pm, pp, found, files, textVars>>

Next ==
  \/ Main
  \/ WebSearch
  \/ SearchPubmed
  \/ MetadataAttempt
  \/ SearchBiorxiv
  \/ SearchMedrxiv
  \/ Report
  \/ Return
  \/ Propagate

Spec == Init /\ [][Next]_vars

(***************************************************************************)
(* Claims about the entry points and the orchestrator (checked under Spec) *)
(***************************************************************************)

\* the dates main() ends up with both parse, and the start is not after the end
ArgsInOrder ==
  /\ strptime_ok(args.start)
  /\ strptime_ok(args.end)
  /\ date_le(strptime(args.start), strptime(args.end))

\* C1: main() rejects a malformed date and a start date later than the end date
\* before any network call, with a non-zero exit status; only well-formed dates
\* with start <= end reach the search.
C1_InvalidDatesRejected ==
  caller = "cli" /\ ~ArgsInOrder =>
    /\ pc = "exit"
    /\ ~network
    /\ adapters.called = {}
    /\ outcome.exit_status > 0

\* the pmids of the batch numbered batch_num (from 1)
BatchOf(batch_num) ==
  {pm.pmids[k] : k \in ((batch_num - 1) * batch_size + 1)..Min(batch_num * batch_size, Len(pm.pmids))}

\* C2: once get_pubmed_metadata has returned, a batch that failed all its attempts
\* has no record in the returned list, and every record of a batch whose request
\* succeeded is in the returned list and, when run() returned, in the report.
C2_AbandonedBatchEmpty ==
  "get_pubmed_metadata" \in adapters.returned =>
    /\ \A b \in pm.abandoned :
         \A k \in 1..Len(found.pubmed_papers) : found.pubmed_papers[k].pmid \notin BatchOf(b)
    /\ \A r \in Range(pm.fetched) :
         /\ r \in Range(found.pubmed_papers)
         /\ pc \in {"returned", "exit"} /\ ~outcome.raised
              => /\ files.pdf.written
                 /\ r \in Range(files.pdf.complete_list)
                 /\ files.excel.written
                 /\ \E k \in 1..Len(files.excel.rows) :
                      /\ searcher.all_papers[k] = r
                      /\ files.excel.rows[k] = excel_row(r)

\* C3: whatever goes wrong on a listing page, _search_preprint_server returns
\* normally: no exception ever leaves it (only it can move the process to "raised").
C3_PreprintNeverRaises == pc # "raised"

RunEntered == "search_pubmed" \in adapters.called

RunEnded == pc \in {"returned", "raised", "exit"} /\ RunEntered

\* C4: whatever fails in one source, when run() has ended the two preprint adapters
\* were called (and get_pubmed_metadata, when there were identifiers), and every
\* record an adapter handed back is in all_papers and in both reports.
C4_SourcesIndependent ==
  RunEnded =>
    /\ {"search_biorxiv", "search_medrxiv"} \subseteq adapters.called
    /\ \A r \in Range(found.pubmed_papers) \cup Range(found.biorxiv_papers)
                  \cup Range(found.medrxiv_papers) :
         /\ r \in Range(searcher.all_papers)
         /\ files.pdf.written /\ r \in Range(files.pdf.complete_list)
         /\ files.excel.written /\ Len(files.excel.rows) = Len(searcher.all_papers)

AllSourcesReturned ==
  {"search_pubmed", "search_biorxiv", "search_medrxiv"} \subseteq adapters.returned

AllSourcesEmpty ==
  /\ AllSourcesReturned
  /\ found.pubmed_papers = <<>>
  /\ found.biorxiv_papers = <<>>
  /\ found.medrxiv_papers = <<>>

\* C5: when all three sources came back empty, run() ends without raising, writes
\* neither file, and the total is zero; run_search then returns total_papers = 0
\* with no spreadsheet bytes and no document bytes.
C5_EmptyRun ==
  AllSourcesEmpty =>
    /\ pc \in {"report", "returned", "exit"}
    /\ ~outcome.raised
    /\ Len(searcher.all_papers) = 0
    /\ ~files.excel.written
    /\ ~files.pdf.written
    /\ caller = "cli" /\ pc = "exit" => outcome.exit_status = 0
    /\ caller = "web" /\ pc = "exit" =>
         /\ outcome.results.returned
         /\ outcome.results.total_papers = 0
         /\ ~outcome.results.has_excel
         /\ ~outcome.results.has_pdf

\* the page got its results from a run whose three sources came back empty
C5_Witness ==
  /\ AllSourcesEmpty
  /\ network
  /\ caller = "web"
  /\ pc = "exit"
  /\ outcome.results.returned
  /\ outcome.results.total_papers = 0

(***************************************************************************)
(* SpecFilter: _is_setbp1_relevant applied to title / abstract pairs       *)
(***************************************************************************)

TitleUpperKeyword == <<"S", "E", "T", "B", "P", "1", " ", "v", "a", "r", "i", "a", "n", "t">>
TitleNoKeyword == <<"L", "i", "v", "e", "r", " ", "a", "t", "l", "a", "s">>
TitleKeywordHead == <<"s", "e", "t", " ", "b", "i", "n", "d", "i", "n", "g">>
TitleSyndromeHead == <<"S", "c", "h", "i", "n", "z", "e", "l">>

FilterTitles == {<<>>, TitleUpperKeyword, TitleNoKeyword, TitleKeywordHead, TitleSyndromeHead}

AbstractKeywordTail == <<"P", "r", "o", "t", "e", "i", "n", " ", "1", " ", "b", "i", "n", "d", "s">>
AbstractSyndromeTail == <<"G", "i", "e", "d", "i", "o", "n", " ", "c", "o", "h", "o", "r", "t">>
AbstractMixedCase == <<"a", " ", "S", "g", "d", " ", "r", "e", "g", "i", "s", "t", "r", "y">>
AbstractNoKeyword == <<"m", "i", "c", "e">>

FilterAbstracts ==
  {<<>>, AbstractKeywordTail, AbstractSyndromeTail, AbstractMixedCase, AbstractNoKeyword}

InitFilter ==
  /\ text \in FilterTitles
  /\ typed = 0
  /\ call = NoCall
  /\ papers_in = <<>>
  /\ RunIdle

\* self._is_setbp1_relevant(title, abstract) with the typed text as the title
CallIsSetbp1Relevant ==
  /\ \E abstract \in FilterAbstracts :
       call' = [fn |-> "_is_setbp1_relevant", arg |-> abstract,
                ret |-> _is_setbp1_relevant(text, abstract)]
  /\ UNCHANGED <<text, typed, papers_in, runVars>>

NextFilter ==
  \/ TypePiece
  \/ CallIsSetbp1Relevant

SpecFilter == InitFilter /\ [][NextFilter]_vars

\* kw occurs in s at position i, letters compared without regard to case
OccursAt(s, kw, i) ==
  /\ i + Len(kw) - 1 <= Len(s)
  /\ \A j \in 1..Len(kw) : LowerChar(s[i + j - 1]) = kw[j]

\* some keyword occurs somewhere in s, in any case
HasKeyword(s) ==
  \E k \in 1..Len(SETBP1_KEYWORDS) : \E i \in 1..Len(s) : OccursAt(s, SETBP1_KEYWORDS[k], i)

\* C11 as stated: a pair is accepted exactly when a keyword occurs, in any
\* case, in the title or in the abstract; a pair in which neither field
\* contains a keyword is never accepted.
C11_RelevantAsStated ==
  call.fn = "_is_setbp1_relevant" =>
    (call.ret <=> (HasKeyword(text) \/ HasKeyword(call.arg)))

\* C11 amended: a pair is accepted exactly when a keyword occurs, in any case,
\* in the title, one space and the abstract joined; so a pair in which either
\* field contains a keyword is always accepted, and a pair in which neither
\* field nor the joined text contains one is never accepted.
C11_RelevantAmended ==
  call.fn = "_is_setbp1_relevant" =>
    /\ call.ret <=> HasKeyword(text \o <<" ">> \o call.arg)
    /\ (HasKeyword(text) \/ HasKeyword(call.arg)) => call.ret
    /\ (~HasKeyword(text) /\ ~HasKeyword(call.arg)
          /\ ~HasKeyword(text \o <<" ">> \o call.arg)) => ~call.ret

\* a title with an upper-case keyword and an abstract without any is accepted
C11_Witness ==
  /\ call.fn = "_is_setbp1_relevant"
  /\ call.ret = TRUE
  /\ HasKeyword(text)
  /\ ~AnyIn(SETBP1_KEYWORDS, text)
  /\ ~HasKeyword(call.arg)

(***************************************************************************)
(* Claims about the records held in all_papers                             *)
(***************************************************************************)

\* C12: every record held in all_papers has a non-empty title and a non-empty
\* source field, whatever the upstream services answered.
C12_RecordsHaveTitleAndSource ==
  \A k \in 1..Len(searcher.all_papers) :
    /\ searcher.all_papers[k].title # <<>>
    /\ searcher.all_papers[k].source # <<>>

\* the half of C12 that the adapters do guarantee: the source field is set
RecordsHaveSource ==
  \A k \in 1..Len(searcher.all_papers) : searcher.all_papers[k].source # <<>>

(***************************************************************************)
(* Claims about the retry loop of get_pubmed_metadata                      *)
(***************************************************************************)

total_batches == (Len(pm.pmids) + batch_size - 1) \div batch_size

batches_done == pm.i \div batch_size

\* while get_pubmed_metadata runs: the batch at pm.i exists, it has been
\* requested pm.attempt times, at most max_retries - 1 of them, and every batch
\* before it was requested at least once and at most max_retries times
RetryLoopInvariant ==
  pc = "metadata" =>
    /\ pm.i < Len(pm.pmids)
    /\ pm.i % batch_size = 0
    /\ pm.attempt \in 0..(max_retries - 1)
    /\ pm.requests >= batches_done + pm.attempt
    /\ pm.requests <= max_retries * batches_done + pm.attempt

\* one detail request and what follows it
RetryStep ==
  pc = "metadata" =>
    /\ (pm'.raised /\ pm.attempt + 1 < max_retries) =>
         /\ pc' = "metadata"
         /\ pm'.i = pm.i
         /\ pm'.attempt = pm.attempt + 1
         /\ pm'.slept = 1000 * 2 * (pm.attempt + 1)
    /\ (pm'.raised /\ pm.attempt + 1 = max_retries) =>
         /\ pm'.i = pm.i + batch_size
         /\ pm'.attempt = 0
    /\ ~pm'.raised =>
         /\ pm'.i = pm.i + batch_size
         /\ pm'.attempt = 0
    /\ pc' = "metadata" => pm'.requests = pm.requests + 1
    /\ pc' # "metadata" =>
         /\ pm'.i >= Len(pm.pmids)
         /\ pm.requests + 1 >= total_batches
         /\ pm.requests + 1 <= max_retries * total_batches

\* C13: every batch is requested at least once and at most three times; after
\* its first successful attempt it is not requested again; the k-th failed
\* attempt (k = 1, 2) is followed by a wait of 2*k seconds and a retry; after the
\* third failure there is no retry and the next batch is processed; each request
\* advances the attempt number or the batch, so the loop ends, after at most
\* 3 * ceil(len(pmids) / batch_size) requests.
C13_RetrySchedule == [] RetryLoopInvariant /\ [][RetryStep]_vars

\* the second attempt of a batch has failed and was followed by a wait of 4 s
C13_Witness ==
  /\ pc = "metadata"
  /\ pm.attempt = 2
  /\ pm.raised
  /\ pm.slept = 4000
  /\ pm.requests >= 2

(***************************************************************************)
(* SpecPages: one call of _search_preprint_server, with the history of the *)
(* listing pages it fetched in pp.pages                                    *)
(***************************************************************************)

\* the pages a listing serves here: those of Collections and two one-item pages
ListingCollections == Collections \cup {<<ItemNoDoi>>, <<ItemIrrelevant>>}

ListingResponses ==
  {[status |-> "error", collection |-> <<>>, messages |-> [kind |-> "absent", total |-> 0]]}
    \cup {[status |-> "ok", collection |-> c, messages |-> m] :
            c \in ListingCollections, m \in MessagesValues}

InitPages ==
  /\ pc = "start"
  /\ caller = "none"
  /\ args = [start |-> <<>>, end |-> <<>>]
  /\ searcher = [start_date |-> <<>>, end_date |-> <<>>, all_papers |-> <<>>]
  /\ network = FALSE
  /\ adapters = [called |-> {}, returned |-> {}]
  /\ pm = [pmids |-> <<>>, i |-> 0, attempt |-> 0, all_metadata |-> <<>>, abandoned |-> {},
           fetched |-> <<>>, requests |-> 0, raised |-> FALSE, slept |-> 0]
  /\ pp = [server |-> <<>>, papers |-> <<>>, cursor |-> 0, pages |-> <<>>]
  /\ found = [pubmed_papers |-> <<>>, biorxiv_papers |-> <<>>, medrxiv_papers |-> <<>>]
  /\ files = [excel |-> NoFile, pdf |-> NoPdf]
  /\ outcome = [exit_status |-> -1, raised |-> FALSE, results |-> NoResults]
  /\ text = <<>>
  /\ typed = 0
  /\ call = NoCall
  /\ papers_in = <<>>

\* search_biorxiv / search_medrxiv: _search_preprint_server(server) is entered
CallSearchPreprintServer ==
  /\ pc = "start"
  /\ \E server \in {BIORXIV, MEDRXIV} :
       /\ pp' = [server |-> server, papers |-> <<>>, cursor |-> 0, pages |-> <<>>]
       /\ adapters' = [adapters EXCEPT !.called = @ \cup {method_of(server)}]
  /\ pc' = "paging"
  /\ UNCHANGED <<caller, args, searcher, network, pm, found, files, outcome, textVars>>

\* one turn of the while loop: the page at pp.cursor is requested, and the turn
\* goes on to the next page, returns papers ("paged") or raises ("raised")
FetchPage ==
  /\ pc = "paging"
  /\ network' = TRUE
  /\ \E resp \in ListingResponses :
       LET turn == preprint_page(pp.server, pp, resp)
       IN /\ pp' = [pp EXCEPT !.papers = turn.papers,
                              !.cursor = turn.cursor,
                              !.pages = Append(@, [offset |-> pp.cursor, resp |-> resp])]
          /\ pc' = IF turn.ends = "continue" THEN "paging"
                   ELSE IF turn.ends = "raise" THEN "raised"
                   ELSE "paged"
          /\ adapters' = IF turn.ends = "break"
                         THEN [adapters EXCEPT !.returned = @ \cup {method_of(pp.server)}]
                         ELSE adapters
  /\ UNCHANGED <<caller, args, searcher, pm, found, files, outcome, textVars>>

NextPages ==
  \/ CallSearchPreprintServer
  \/ FetchPage

SpecPages == InitPages /\ [][NextPages]_vars

\* the titles of the items of a page that carry a keyword
RelevantTitles(collection) ==
  LET relevant == SelectSeq(collection, LAMBDA item : HasKeyword(item.title \o <<" ">> \o item.abstract))
  IN [k \in 1..Len(relevant) |-> relevant[k].title]

RECURSIVE RelevantFetched(_)
\* the titles of the relevant items of the pages fetched, page after page
RelevantFetched(pages) ==
  IF pages = <<>> THEN <<>>
  ELSE RelevantFetched(SubSeq(pages, 1, Len(pages) - 1))
         \o (IF pages[Len(pages)].resp.status = "ok"
             THEN RelevantTitles(pages[Len(pages)].resp.collection)
             ELSE <<>>)

\* the total a page reports: none when the request failed, 0 when the page says
\* nothing readable
ReportsTotal(page) == page.resp.status = "ok" /\ page.resp.messages.kind = "total"

\* a page after which the loop has to stop: it failed, it is empty, or its offset
\* plus the page size reaches the total it reports
LastPage(page) ==
  \/ page.resp.status = "error"
  \/ page.resp.collection = <<>>
  \/ ~ReportsTotal(page)
  \/ page.offset + page_size >= page.resp.messages.total

\* pages are requested at offsets 0, 100, 200, ..., each once
OffsetsAscend ==
  \A k \in 1..Len(pp.pages) : pp.pages[k].offset = (k - 1) * page_size

\* the loop goes on only after a page that is not a last page, and ends after
\* the first that is
StopsAtLastPage ==
  pc \in {"paging", "paged", "raised"} =>
    /\ \A k \in 1..(Len(pp.pages) - 1) : ~LastPage(pp.pages[k])
    /\ pc = "paging" => \A k \in 1..Len(pp.pages) : ~LastPage(pp.pages[k])
    /\ pc = "paged" => Len(pp.pages) >= 1 /\ LastPage(pp.pages[Len(pp.pages)])

\* with the same total T on every page that reports one, at most
\* max(1, ceil(T / 100)) pages are requested
BoundedByTotal ==
  \A T \in Totals :
    (\A k \in 1..Len(pp.pages) : ReportsTotal(pp.pages[k]) => pp.pages[k].resp.messages.total = T)
      => Len(pp.pages) <= Max(1, (T + page_size - 1) \div page_size)

\* the titles of the records the call handed to its caller; none when it raised
ResultTitles ==
  IF pc = "paged" THEN [k \in 1..Len(pp.papers) |-> pp.papers[k].title] ELSE <<>>

\* C14: pages are requested at offsets 0, 100, 200, ... in increasing order, no
\* offset twice; the loop stops after the first page that is empty, fails or
\* whose offset + 100 reaches the total it reports; under a fixed total T it
\* makes at most max(1, ceil(T / 100)) requests; and once the call has ended,
\* every relevant item of every fetched page is in its result exactly once.
C14_Pagination ==
  /\ OffsetsAscend
  /\ StopsAtLastPage
  /\ BoundedByTotal
  /\ pc \in {"paged", "raised"} => ResultTitles = RelevantFetched(pp.pages)

\* the part of C14 that holds whenever the call returns
ReturnedResultComplete ==
  pc = "paged" => ResultTitles = RelevantFetched(pp.pages)

(***************************************************************************)
(* SpecRerun: run() called again and again on one SETBPLiteratureSearch    *)
(* object                                                                  *)
(***************************************************************************)

\* a further run() is followed while the object holds at most this many papers
MaxCarried == 1

\* an object constructed by a caller that is about to call run()
InitRerun ==
  /\ pc = "search_pubmed"
  /\ caller = "script"
  /\ args = [start |-> <<>>, end |-> <<>>]
  /\ searcher = NewSearcher(DateEarly, DateLate)
  /\ network = FALSE
  /\ adapters = [called |-> {}, returned |-> {}]
  /\ pm = [pmids |-> <<>>, i |-> 0, attempt |-> 0, all_metadata |-> <<>>, abandoned |-> {},
           fetched |-> <<>>, requests |-> 0, raised |-> FALSE, slept |-> 0]
  /\ pp = [papers |-> <<>>, cursor |-> 0]
  /\ found = [pubmed_papers |-> <<>>, biorxiv_papers |-> <<>>, medrxiv_papers |-> <<>>]
  /\ files = [excel |-> NoFile, pdf |-> NoPdf]
  /\ outcome = [exit_status |-> -1, raised |-> FALSE, results |-> NoResults]
  /\ text = <<>>
  /\ typed = 0
  /\ call = NoCall
  /\ papers_in = <<>>

\* run() has returned and the caller calls it again on the same object: the
\* locals of run() and of the adapters are new, self.all_papers and the files
\* already written are what the earlier run left
RunAgain ==
  /\ pc = "returned"
  /\ Len(searcher.all_papers) <= MaxCarried
  /\ pc' = "search_pubmed"
  /\ adapters' = [called |-> {}, returned |-> {}]
  /\ pm' = [pmids |-> <<>>, i |-> 0, attempt |-> 0, all_metadata |-> <<>>, abandoned |-> {},
            fetched |-> <<>>, requests |-> 0, raised |-> FALSE, slept |-> 0]
  /\ pp' = [papers |-> <<>>, cursor |-> 0]
  /\ found' = [pubmed_papers |-> <<>>, biorxiv_papers |-> <<>>, medrxiv_papers |-> <<>>]
  /\ UNCHANGED <<caller, args, searcher, network, files, outcome, textVars>>

NextRerun ==
  \/ SearchPubmed
  \/ MetadataAttempt
  \/ SearchBiorxiv
  \/ SearchMedrxiv
  \/ Report
  \/ RunAgain

SpecRerun == InitRerun /\ [][NextRerun]_vars

\* C15: after any sequence of run() calls on one object, the total of a run
\* (len(all_papers), the 'Total Papers' row) is the sum of that run's three
\* per-source counts, and all_papers is that run's PubMed records followed by
\* its bioRxiv and its medRxiv records.
C15_TotalIsSumOfSources ==
  pc = "returned" =>
    /\ searcher.all_papers
         = found.pubmed_papers \o found.biorxiv_papers \o found.medrxiv_papers
    /\ Len(searcher.all_papers)
         = Len(found.pubmed_papers) + Len(found.biorxiv_papers) + Len(found.medrxiv_papers)
    /\ ~no_papers(searcher.all_papers) =>
         /\ files.pdf.written
         /\ files.pdf.total
              = files.pdf.pubmed_count + files.pdf.biorxiv_count + files.pdf.medrxiv_count

(***************************************************************************)
(* Claims about the list get_pubmed_metadata returns                       *)
(***************************************************************************)

\* how many records of papers carry the identifier pmid
RecordsOf(papers, pmid) == Cardinality({k \in 1..Len(papers) : papers[k].pmid = pmid})

\* C16: the list get_pubmed_metadata returns holds at most one record per input
\* identifier, whatever the outcomes of the attempts were, and never more
\* records than identifiers.
C16_OneRecordPerId ==
  "get_pubmed_metadata" \in adapters.returned =>
    /\ \A k \in 1..Len(pm.pmids) : RecordsOf(found.pubmed_papers, pm.pmids[k]) <= 1
    /\ Len(found.pubmed_papers) <= Len(pm.pmids)

(***************************************************************************)
(* Claims about the clickable labels of the PDF citations                  *)
(***************************************************************************)

\* the position of the first character c of s at or after position from, or 0
FirstAt(s, c, from) ==
  IF \E j \in from..Len(s) : s[j] = c
  THEN CHOOSE j \in from..Len(s) : s[j] = c /\ \A h \in from..(j - 1) : s[h] # c
  ELSE 0

\* the target of a label: what stands between href=" and the next quote
HrefOf(label) ==
  SubSeq(label, Len(LinkOpen) + 1, FirstAt(label, "\"", Len(LinkOpen) + 1) - 1)

\* what a label shows: what stands between the first > and the closing </link>
ShownOf(label) == SubSeq(label, FirstAt(label, ">", 1) + 1, Len(label) - Len(LinkClose))

StartsWith(s, prefix) == Len(s) >= Len(prefix) /\ SubSeq(s, 1, Len(prefix)) = prefix

After(s, prefix) == SubSeq(s, Len(prefix) + 1, Len(s))

\* C17: for every record, a label that shows 'PMID: <pmid>' links to the PubMed
\* URL of that PMID, a label that shows 'DOI: <doi>' links to the DOI URL of that
\* DOI, and the label is empty exactly when _paper_link returns ''.
C17_LabelNamesItsLink ==
  call.fn = "_paper_link_label" =>
    \A i \in 1..Len(papers_in) :
      LET label == call.ret[i]
      IN /\ label = <<>> <=> _paper_link(papers_in[i]) = <<>>
         /\ label # <<>> =>
              /\ StartsWith(ShownOf(label), PmidPrefix) =>
                   HrefOf(label) = PubmedBase \o After(ShownOf(label), PmidPrefix) \o <<"/">>
              /\ StartsWith(ShownOf(label), DoiPrefix) =>
                   HrefOf(label) = DoiBase \o After(ShownOf(label), DoiPrefix)

\* the part of C17 that holds: the label is empty exactly when the link is, and
\* a label links to what _paper_link returns
LabelLinksToPaperLink ==
  call.fn = "_paper_link_label" =>
    \A i \in 1..Len(papers_in) :
      /\ call.ret[i] = <<>> <=> _paper_link(papers_in[i]) = <<>>
      /\ call.ret[i] # <<>> => HrefOf(call.ret[i]) = _paper_link(papers_in[i])

====
